---- MODULE Spec2Model ----
(***************************************************************************)
(* A state-machine model of the single-pass compiler of src/src/parser.c.  *)
(* The C call stack is explicit (variable stack): every recursive function *)
(* of parser.c is a kind of activation record, and every segment of such a *)
(* function between two recursive calls is one action.  The functions that *)
(* do not recurse (advance, consume, errorAt, the emitters, the scope and  *)
(* variable helpers) are operators from parser state to parser state.      *)
(***************************************************************************)
EXTENDS Integers, Sequences, FiniteSets, TLC

VARIABLES source, parser, stack, result

vars == <<source, parser, stack, result>>

(***************************************************************************)
(* Bounds of the model.                                                    *)
(***************************************************************************)
\* longest token sequence of the exhaustively enumerated sources
MaxLen == 3
\* number of activation records the C stack holds before it overflows
MaxDepth == 40
\* the generated long sources go this many items past the limit they probe
MaxOver == 1

(***************************************************************************)
(* Program constants.                                                      *)
(***************************************************************************)
UINT8_MAX == 255
UINT8_COUNT == 256
UINT16_MAX == 65535
MAX_ARGS == 32
MAX_PARAMS == 32
MAX_PRINT == 32

PREC_NONE == 0
PREC_ASSIGNMENT == 1
PREC_OR == 2
PREC_AND == 3
PREC_EQUALITY == 4
PREC_COMPARISON == 5
PREC_TERM == 6
PREC_FACTOR == 7
PREC_UNARY == 8
PREC_CALL == 9
PREC_PRIMARY == 10

(***************************************************************************)
(* Tokens.  A token carries its type, its lexeme and its line.             *)
(***************************************************************************)
Tok(type, lexeme, line) == [type |-> type, lexeme |-> lexeme, line |-> line]

\* a keyword or punctuation token: its lexeme is its own text
K(type, line) == Tok(type, type, line)
Id(name, line) == Tok("IDENTIFIER", name, line)
Num(line) == Tok("NUMBER", "1", line)
Str(line) == Tok("STRING", "\"s\"", line)
Err(line) == Tok("ERROR", "Unexpected character.", line)

\* the token the parser holds before the first advance
NoToken == Tok("NONE", "", 0)

(***************************************************************************)
(* The rule table.                                                         *)
(***************************************************************************)
Rule(prefix, infix, precedence) ==
    [prefix |-> prefix, infix |-> infix, precedence |-> precedence]

rules(type) ==
    CASE type = "LPAREN"        -> Rule("grouping", "call", PREC_CALL)
      [] type = "LBRACKET"      -> Rule("map", "index_", PREC_CALL)
      [] type = "DOT"           -> Rule("NULL", "dot", PREC_CALL)
      [] type = "MINUS"         -> Rule("unary", "binary", PREC_TERM)
      [] type = "PLUS"          -> Rule("NULL", "binary", PREC_TERM)
      [] type = "SLASH"         -> Rule("NULL", "binary", PREC_FACTOR)
      [] type = "STAR"          -> Rule("NULL", "binary", PREC_FACTOR)
      [] type = "BANG"          -> Rule("unary", "NULL", PREC_NONE)
      [] type = "BANG_EQUAL"    -> Rule("NULL", "binary", PREC_EQUALITY)
      [] type = "EQUAL_EQUAL"   -> Rule("NULL", "binary", PREC_EQUALITY)
      [] type = "GREATER"       -> Rule("NULL", "binary", PREC_COMPARISON)
      [] type = "GREATER_EQUAL" -> Rule("NULL", "binary", PREC_COMPARISON)
      [] type = "LESS"          -> Rule("NULL", "binary", PREC_COMPARISON)
      [] type = "LESS_EQUAL"    -> Rule("NULL", "binary", PREC_COMPARISON)
      [] type = "IDENTIFIER"    -> Rule("variable", "NULL", PREC_NONE)
      [] type = "STRING"        -> Rule("string", "NULL", PREC_NONE)
      [] type = "NUMBER"        -> Rule("number", "NULL", PREC_NONE)
      [] type = "AND"           -> Rule("NULL", "and_", PREC_AND)
      [] type = "FALSE"         -> Rule("literal", "NULL", PREC_NONE)
      [] type = "FUNC"          -> Rule("literal", "NULL", PREC_NONE)
      [] type = "NOT"           -> Rule("unary", "NULL", PREC_NONE)
      [] type = "NULL"          -> Rule("literal", "NULL", PREC_NONE)
      [] type = "OR"            -> Rule("NULL", "or_", PREC_OR)
      [] type = "TRUE"          -> Rule("literal", "NULL", PREC_NONE)
      [] OTHER                  -> Rule("NULL", "NULL", PREC_NONE)

getRule(type) == rules(type)

(***************************************************************************)
(* The lexer: the source is the token sequence it yields; after the last   *)
(* token every scan yields EOF.                                            *)
(***************************************************************************)
EofLine(src) == IF Len(src) = 0 THEN 1 ELSE src[Len(src)].line

lexer_scan(p) ==
    IF p.lexer <= Len(source)
    THEN [p |-> [p EXCEPT !.lexer = @ + 1], v |-> source[p.lexer]]
    ELSE [p |-> p, v |-> Tok("EOF", "", EofLine(source))]

(***************************************************************************)
(* Access to the current compiler frame and the chunk it writes to.        *)
(***************************************************************************)
Top(s) == s[Len(s)]
Pop(s) == SubSeq(s, 1, Len(s) - 1)

curCompiler(p) == Top(p.compiler)
localCount(c) == Len(c.locals)
currentChunk(p) == p.functions[curCompiler(p).function].chunk
count(p) == Len(currentChunk(p).code)

(***************************************************************************)
(* Diagnostics.                                                            *)
(***************************************************************************)
\* parser.stderr is what has been written to stderr, one entry per diagnostic;
\* parser.reported counts the diagnostics written since synchronize last began
\* errorAt without line 101 (hadError = true): the diagnostic is written but
\* the flag compile returns by stays clear
errorAt_NoFlag(p, token, message) ==
    IF p.panicMode THEN p
    ELSE [p EXCEPT !.panicMode = TRUE,
                   !.stderr = Append(@, [message |-> message, at |-> token.type]),
                   !.reported = @ + 1]

\* errorAt without line 76 (if (panicMode) return): every diagnostic is written
errorAt_NoSuppression(p, token, message) ==
    [p EXCEPT !.panicMode = TRUE,
              !.stderr = Append(@, [message |-> message, at |-> token.type]),
              !.reported = @ + 1,
              !.hadError = TRUE]

errorAt(p, token, message) ==
    IF p.panicMode THEN p
    ELSE [p EXCEPT !.panicMode = TRUE,
                   !.stderr = Append(@, [message |-> message, at |-> token.type]),
                   !.reported = @ + 1,
                   !.hadError = TRUE]

error(p, message) == errorAt(p, p.previous, message)

errorAtCurrent(p, message) == errorAt(p, p.current, message)

(***************************************************************************)
(* The parser driver.                                                      *)
(***************************************************************************)
RECURSIVE advanceScan(_)
advanceScan(p) ==
    LET r == lexer_scan(p)
        q == [r.p EXCEPT !.current = r.v]
    IN IF r.v.type # "ERROR" THEN q
       ELSE advanceScan(errorAtCurrent(q, r.v.lexeme))

advance(p) == advanceScan([p EXCEPT !.previous = p.current])

consume(p, type, message) ==
    IF p.current.type = type THEN advance(p)
    ELSE errorAtCurrent(p, message)

consumes(p, type1, type2, message) ==
    IF p.current.type = type1 \/ p.current.type = type2 THEN advance(p)
    ELSE errorAtCurrent(p, message)

checkPrev(p, type) == p.previous.type = type

check(p, type) == p.current.type = type

match(p, type) ==
    IF ~check(p, type) THEN [p |-> p, v |-> FALSE]
    ELSE [p |-> advance(p), v |-> TRUE]

(***************************************************************************)
(* Emitters.  A code byte is an opcode, Op(name), or an operand, Arg(n)    *)
(* with n in 0..255.                                                       *)
(***************************************************************************)
Op(name) == [op |-> name, n |-> 0]
Arg(n) == [op |-> "", n |-> n]

chunk_emit(chunk, byte) == [chunk EXCEPT !.code = Append(@, byte)]

emitByte(p, byte) ==
    [p EXCEPT !.functions[curCompiler(p).function].chunk = chunk_emit(@, byte)]

emitBytes(p, byte1, byte2) == emitByte(emitByte(p, byte1), byte2)

emitJump(p, instruction) ==
    LET q == emitBytes(emitByte(p, Op(instruction)), Arg(0), Arg(0))
        offset == count(q) - 2
    IN [p |-> [q EXCEPT !.emitted = Append(@, [chunk |-> curCompiler(q).function,
                                               offset |-> offset])],
        v |-> offset]

emitReturn(p) == emitByte(emitByte(p, Op("OP_NIL")), Op("OP_RET"))

arr_add(chunk, value) ==
    [chunk |-> [chunk EXCEPT !.constants = Append(@, value)],
     v |-> Len(chunk.constants)]

makeConstant(p, value) ==
    LET f == curCompiler(p).function
        r == arr_add(p.functions[f].chunk, value)
        q == [p EXCEPT !.functions[f].chunk = r.chunk]
    IN IF r.v > UINT8_MAX
       THEN [p |-> error(q, "Too many constants in one chunk."), v |-> 0]
       ELSE [p |-> q, v |-> r.v]

emitSmart(p, op, arg) == emitBytes(p, Op(op), Arg(arg % 256))

emitConstant(p, value) ==
    LET r == makeConstant(p, value)
    IN emitSmart(r.p, "OP_CONST", r.v)

\* patchJump writing the operand low byte first
patchJump_LowByteFirst(p, offset) ==
    LET f == curCompiler(p).function
        jump == count(p) - offset - 2
        q == IF jump > UINT16_MAX THEN error(p, "Too much code to jump over.") ELSE p
    IN [q EXCEPT !.functions[f].chunk.code[offset + 1] = Arg(jump % 256),
                 !.functions[f].chunk.code[offset + 2] = Arg((jump \div 256) % 256),
                 !.patched = Append(@, [chunk |-> f, offset |-> offset])]

patchJump(p, offset) ==
    LET f == curCompiler(p).function
        jump == count(p) - offset - 2
        q == IF jump > UINT16_MAX THEN error(p, "Too much code to jump over.") ELSE p
    IN [q EXCEPT !.functions[f].chunk.code[offset + 1] = Arg((jump \div 256) % 256),
                 !.functions[f].chunk.code[offset + 2] = Arg(jump % 256),
                 !.patched = Append(@, [chunk |-> f, offset |-> offset])]

(***************************************************************************)
(* Compiler frames.  parser.compiler is the chain of enclosing frames, the *)
(* innermost last; parser.functions holds the function objects made so far.*)
(***************************************************************************)
fun_new(name) ==
    [name |-> name, arity |-> 0, chunk |-> [code |-> <<>>, constants |-> <<>>]]

initCompiler(p, type) ==
    LET name == IF type # "TYPE_SCRIPT" THEN p.previous.lexeme ELSE ""
        compiler == [function |-> Len(p.functions) + 1,
                     type |-> type,
                     locals |-> <<[name |-> "", depth |-> 0]>>,
                     scopeDepth |-> 0]
    IN [p EXCEPT !.functions = Append(@, fun_new(name)),
                 !.compiler = Append(@, compiler)]

endCompiler(p) ==
    LET q == emitReturn(p)
    IN [p |-> [q EXCEPT !.compiler = Pop(@)], v |-> curCompiler(q).function]

beginScope(p) ==
    [p EXCEPT !.compiler[Len(p.compiler)].scopeDepth = @ + 1]

\* the locals the loop of endScope pops: those above the innermost local
\* whose depth is not greater than the scope depth
PoppedLocals(locals, scopeDepth) ==
    LET keep == {i \in DOMAIN locals : locals[i].depth <= scopeDepth}
    IN Len(locals) - (IF keep = {} THEN 0 ELSE CHOOSE i \in keep : \A j \in keep : j <= i)

\* endScope without line 277 (scopeDepth--): the locals of the scope are
\* popped but the depth stays
endScope_NoDecrement(p) ==
    LET top == Len(p.compiler)
        f == curCompiler(p).function
        scopeDepth == curCompiler(p).scopeDepth - 1
        locals == curCompiler(p).locals
        n == PoppedLocals(locals, scopeDepth)
    IN [p EXCEPT !.compiler[top].locals = SubSeq(locals, 1, Len(locals) - n),
                 !.functions[f].chunk.code = @ \o [i \in 1..n |-> Op("OP_POP")]]

endScope(p) ==
    LET top == Len(p.compiler)
        f == curCompiler(p).function
        scopeDepth == curCompiler(p).scopeDepth - 1
        locals == curCompiler(p).locals
        n == PoppedLocals(locals, scopeDepth)
    IN [p EXCEPT !.compiler[top].scopeDepth = scopeDepth,
                 !.compiler[top].locals = SubSeq(locals, 1, Len(locals) - n),
                 !.functions[f].chunk.code = @ \o [i \in 1..n |-> Op("OP_POP")]]

(***************************************************************************)
(* Variables.                                                              *)
(***************************************************************************)
identifierConstant(p, name) == makeConstant(p, <<"str", name.lexeme>>)

identifiersEqual(a, b) == a = b

\* the slot (from 0) of the innermost local of the frame with this name, the
\* first the downward scan of resolveLocal meets, or -1
InnermostSlot(compiler, name) ==
    LET S == {i \in DOMAIN compiler.locals :
                  identifiersEqual(name, compiler.locals[i].name)}
    IN IF S = {} THEN -1 ELSE (CHOOSE i \in S : \A j \in S : j <= i) - 1

resolveLocal(p, compiler, name) ==
    LET i == InnermostSlot(compiler, name.lexeme)
    IN IF i = -1 THEN [p |-> p, v |-> -1]
       ELSE [p |-> IF compiler.locals[i + 1].depth = -1
                   THEN error(p, "Cannot read local variable in its own initializer.")
                   ELSE p,
             v |-> i]

\* addLocal comparing with > instead of == : a 257th local is added
addLocal_OffByOne(p, name) ==
    IF localCount(curCompiler(p)) > UINT8_COUNT
    THEN error(p, "Too many local variables in function.")
    ELSE [p EXCEPT !.compiler[Len(p.compiler)].locals =
                       Append(@, [name |-> name.lexeme, depth |-> -1])]

\* addLocal storing the scope depth instead of -1: the local counts as
\* initialized from its declaration on
addLocal_Initialized(p, name) ==
    IF localCount(curCompiler(p)) = UINT8_COUNT
    THEN error(p, "Too many local variables in function.")
    ELSE [p EXCEPT !.compiler[Len(p.compiler)].locals =
                       Append(@, [name |-> name.lexeme,
                                  depth |-> curCompiler(p).scopeDepth])]

addLocal(p, name) ==
    IF localCount(curCompiler(p)) = UINT8_COUNT
    THEN error(p, "Too many local variables in function.")
    ELSE [p EXCEPT !.compiler[Len(p.compiler)].locals =
                       Append(@, [name |-> name.lexeme, depth |-> -1])]

\* a local of the innermost scope of frame c has this name: the downward scan
\* of declareVariable meets it before a local of a shallower scope
DuplicateInScope(c, name) ==
    \E i \in DOMAIN c.locals :
        /\ identifiersEqual(name, c.locals[i].name)
        /\ \A j \in i..Len(c.locals) :
               ~(c.locals[j].depth # -1 /\ c.locals[j].depth < c.scopeDepth)

\* declareVariable scanning every local of the frame (without the break of
\* lines 345-347): a name of an enclosing scope counts as a duplicate
declareVariable_AllScopes(p) ==
    IF curCompiler(p).scopeDepth = 0 THEN p
    ELSE addLocal(IF \E i \in DOMAIN curCompiler(p).locals :
                         identifiersEqual(p.previous.lexeme, curCompiler(p).locals[i].name)
                  THEN error(p, "Variable with this name already declared in this scope.")
                  ELSE p,
                  p.previous)

\* every duplicate the scan meets calls error; the first call alone has an
\* effect
declareVariable(p) ==
    IF curCompiler(p).scopeDepth = 0 THEN p
    ELSE addLocal(IF DuplicateInScope(curCompiler(p), p.previous.lexeme)
                  THEN error(p, "Variable with this name already declared in this scope.")
                  ELSE p,
                  p.previous)

parseVariable(p, errorMessage) ==
    LET q == declareVariable(consume(p, "IDENTIFIER", errorMessage))
    IN IF curCompiler(q).scopeDepth > 0 THEN [p |-> q, v |-> 0]
       ELSE identifierConstant(q, q.previous)

markInitialized(p) ==
    LET c == curCompiler(p)
    IN IF c.scopeDepth = 0 THEN p
       ELSE [p EXCEPT !.compiler[Len(p.compiler)].locals[localCount(c)].depth =
                          c.scopeDepth]

defineVariable(p, global) ==
    IF curCompiler(p).scopeDepth > 0 THEN markInitialized(p)
    ELSE emitSmart(p, "OP_DEF", global)

(***************************************************************************)
(* The parse rules that do not recurse.                                    *)
(***************************************************************************)
literal(p) ==
    CASE p.previous.type = "FALSE" -> emitByte(p, Op("OP_FALSE"))
      [] p.previous.type = "NULL"  -> emitByte(p, Op("OP_NIL"))
      [] p.previous.type = "TRUE"  -> emitByte(p, Op("OP_TRUE"))
      [] p.previous.type = "FUNC"  -> emitBytes(p, Op("OP_LD"), Arg(0))
      [] OTHER -> p

number(p) == emitConstant(p, <<"num", p.previous.lexeme>>)

string(p) == emitConstant(p, <<"str", p.previous.lexeme>>)

binaryEmit(p, operatorType) ==
    CASE operatorType = "EQUAL_EQUAL"   -> emitByte(p, Op("OP_EQ"))
      [] operatorType = "LESS"          -> emitByte(p, Op("OP_LT"))
      [] operatorType = "LESS_EQUAL"    -> emitByte(p, Op("OP_LE"))
      [] operatorType = "BANG_EQUAL"    -> emitBytes(p, Op("OP_EQ"), Op("OP_NOT"))
      [] operatorType = "GREATER"       -> emitBytes(p, Op("OP_LE"), Op("OP_NOT"))
      [] operatorType = "GREATER_EQUAL" -> emitBytes(p, Op("OP_LT"), Op("OP_NOT"))
      [] operatorType = "PLUS"          -> emitByte(p, Op("OP_ADD"))
      [] operatorType = "MINUS"         -> emitByte(p, Op("OP_SUB"))
      [] operatorType = "STAR"          -> emitByte(p, Op("OP_MUL"))
      [] operatorType = "SLASH"         -> emitByte(p, Op("OP_DIV"))
      [] OTHER -> p

unaryEmit(p, operatorType) ==
    CASE operatorType \in {"NOT", "BANG"} -> emitByte(p, Op("OP_NOT"))
      [] operatorType = "MINUS"           -> emitByte(p, Op("OP_NEG"))
      [] OTHER -> p

(***************************************************************************)
(* The C call stack.  An activation record names its function (fn), the    *)
(* place it resumes at (pc) and its local variables.  A call replaces the  *)
(* caller's record by one that resumes after the call and pushes the       *)
(* callee's; a call that finds the stack full overflows it, which ends the *)
(* process.                                                                *)
(***************************************************************************)
At(fn, pc) ==
    /\ result = "running"
    /\ Len(stack) > 0
    /\ Top(stack).fn = fn
    /\ Top(stack).pc = pc

Go(p, stk) ==
    IF Len(stk) > MaxDepth
    THEN /\ result' = "overflow"
         /\ UNCHANGED <<source, parser, stack>>
    ELSE /\ parser' = p
         /\ stack' = stk
         /\ UNCHANGED <<source, result>>

Return == Pop(stack)
Resume(frame) == Append(Pop(stack), frame)
Call(frame, callee) == Append(Resume(frame), callee)
AtPc(pc) == [Top(stack) EXCEPT !.pc = pc]

\* what a declaration or a statement finds when it is entered
Enter(p) == [compiler |-> Len(p.compiler),
             scopeDepth |-> curCompiler(p).scopeDepth,
             localCount |-> localCount(curCompiler(p)),
             current |-> p.current.type,
             lexer |-> p.lexer]

Frame(fn) == [fn |-> fn, pc |-> "start"]
declarationFrame(p) == [fn |-> "declaration", pc |-> "start", enter |-> Enter(p)]
statementFrame(p) == [fn |-> "statement", pc |-> "start", enter |-> Enter(p)]
parsePrecedenceFrame(precedence) ==
    [fn |-> "parsePrecedence", pc |-> "start", precedence |-> precedence,
     canAssign |-> FALSE]
expressionFrame == parsePrecedenceFrame(PREC_ASSIGNMENT)
ruleFrame(fn, canAssign) ==
    [fn |-> fn, pc |-> "start", canAssign |-> canAssign, operatorType |-> "",
     name |-> NoToken, arg |-> 0, setOp |-> "", jump |-> 0, count |-> 0]

(***************************************************************************)
(* compile                                                                 *)
(***************************************************************************)
compileStart ==
    /\ At("compile", "start")
    /\ LET p0 == [parser EXCEPT !.compiler = <<>>, !.hadError = FALSE,
                                !.panicMode = FALSE, !.lexer = 1]
           p1 == advance(initCompiler(p0, "TYPE_SCRIPT"))
       IN Go(p1, Resume(AtPc("loop")))

compileLoop ==
    /\ At("compile", "loop")
    /\ LET m == match(parser, "EOF")
       IN IF m.v
          THEN LET e == endCompiler(m.p)
               IN /\ parser' = e.p
                  /\ stack' = Return
                  /\ result' = IF e.p.hadError THEN "NULL" ELSE "function"
                  /\ UNCHANGED source
          ELSE Go(m.p, Call(AtPc("loop"), declarationFrame(m.p)))

(***************************************************************************)
(* declaration and synchronize                                             *)
(***************************************************************************)
declarationStart ==
    /\ At("declaration", "start")
    /\ LET t == parser.current.type
           p1 == advance(parser)
       IN CASE t = "FUNC"   -> Go(p1, Call(AtPc("sync"), Frame("funDeclaration")))
            [] t = "VAR"    -> Go(p1, Call(AtPc("sync"), Frame("varDeclaration")))
            [] t = "GLOBAL" -> Go(p1, Call(AtPc("sync"), Frame("globalDeclaration")))
            [] OTHER -> Go(parser, Call(AtPc("sync"), statementFrame(parser)))

declarationSync ==
    /\ At("declaration", "sync")
    /\ IF parser.panicMode
       THEN Go([parser EXCEPT !.panicMode = FALSE, !.reported = 0],
               Resume(AtPc("synchronize")))
       ELSE Go(parser, Resume(AtPc("return")))

SyncTypes == {"CLASS", "FUNC", "VAR", "FOR", "IF", "WHILE", "PRINT", "RETURN"}

synchronize ==
    /\ At("declaration", "synchronize")
    /\ IF parser.current.type # "EOF" /\ parser.current.type \notin SyncTypes
       THEN Go(advance(parser), stack)
       ELSE Go(parser, Resume(AtPc("return")))

declarationReturn ==
    /\ At("declaration", "return")
    /\ Go(parser, Return)

(***************************************************************************)
(* statement, block and inlineBlock                                        *)
(***************************************************************************)
statementStart ==
    /\ At("statement", "start")
    /\ LET t == parser.current.type
           p1 == advance(parser)
       IN CASE t = "PRINT"  -> Go(p1, Call(AtPc("return"), Frame("printStatement")))
            [] t = "IF"     -> Go(p1, Call(AtPc("return"), Frame("ifStatement")))
            [] t = "RETURN" -> Go(p1, Call(AtPc("return"), Frame("returnStatement")))
            [] t = "EXIT"   -> Go(p1, Call(AtPc("return"), Frame("exitStatement")))
            [] t = "LBRACE" -> Go(beginScope(p1), Call(AtPc("endScope"), Frame("block")))
            [] OTHER ->
                 IF checkPrev(parser, "THEN")
                 THEN Go(beginScope(parser), Call(AtPc("endScope"), Frame("inlineBlock")))
                 ELSE IF checkPrev(parser, "ELSE")
                 THEN Go(beginScope(parser), Resume(AtPc("elseLoop")))
                 ELSE Go(parser, Call(AtPc("return"), Frame("expressionStatement")))

statementElseLoop ==
    /\ At("statement", "elseLoop")
    /\ IF ~check(parser, "ENDIF") /\ ~check(parser, "EOF")
       THEN Go(parser, Call(AtPc("elseLoop"), declarationFrame(parser)))
       ELSE Go(endScope(parser), Resume(AtPc("return")))

statementEndScope ==
    /\ At("statement", "endScope")
    /\ Go(endScope(parser), Resume(AtPc("return")))

statementReturn ==
    /\ At("statement", "return")
    /\ Go(parser, Return)

block ==
    /\ At("block", "start")
    /\ IF ~check(parser, "RBRACE") /\ ~check(parser, "EOF")
       THEN Go(parser, Call(AtPc("start"), declarationFrame(parser)))
       ELSE Go(consume(parser, "RBRACE", "Expect '}' after block."), Return)

inlineBlockStart ==
    /\ At("inlineBlock", "start")
    /\ IF parser.current.line = parser.previous.line /\ ~check(parser, "EOF")
       THEN Go(parser, Call(AtPc("return"), declarationFrame(parser)))
       ELSE Go(parser, Resume(AtPc("loop")))

inlineBlockLoop ==
    /\ At("inlineBlock", "loop")
    /\ IF ~check(parser, "ELSE") /\ ~check(parser, "EOF")
       THEN Go(parser, Call(AtPc("loop"), declarationFrame(parser)))
       ELSE Go(parser, Return)

inlineBlockReturn ==
    /\ At("inlineBlock", "return")
    /\ Go(parser, Return)

(***************************************************************************)
(* function and the declarations                                           *)
(***************************************************************************)
RECURSIVE functionParams(_)
functionParams(p) ==
    LET f == curCompiler(p).function
        p1 == [p EXCEPT !.functions[f].arity = @ + 1]
        p2 == IF p1.functions[f].arity > MAX_PARAMS
              THEN errorAtCurrent(p1, "Cannot have more than 32 parameters.")
              ELSE p1
        v == parseVariable(p2, "Expect parameter name.")
        m == match(defineVariable(v.p, v.v), "COMMA")
    IN IF m.v THEN functionParams(m.p) ELSE m.p

functionStart ==
    /\ At("function", "start")
    /\ LET p1 == beginScope(initCompiler(parser, "TYPE_FUNCTION"))
           p2 == consume(p1, "LPAREN", "Expect '(' after function name.")
           p3 == IF ~check(p2, "RPAREN") THEN functionParams(p2) ELSE p2
           p4 == consume(p3, "RPAREN", "Expect ')' after parameters.")
       IN Go(p4, Resume(AtPc("body")))

functionBody ==
    /\ At("function", "body")
    /\ IF ~check(parser, "END") /\ ~check(parser, "ENDFUNC") /\ ~check(parser, "EOF")
       THEN Go(parser, Call(AtPc("body"), declarationFrame(parser)))
       ELSE LET p1 == consumes(parser, "END", "ENDFUNC",
                               "Expect 'End' or 'EndFunc' after function body.")
                e == endCompiler(p1)
                c == makeConstant(e.p, <<"fun", e.v>>)
            IN Go(emitSmart(c.p, "OP_CONST", c.v), Return)

funDeclarationStart ==
    /\ At("funDeclaration", "start")
    /\ LET v == parseVariable(parser, "Expect function name.")
           p1 == markInitialized(v.p)
       IN Go(p1, Call([fn |-> "funDeclaration", pc |-> "define", global |-> v.v],
                      Frame("function")))

funDeclarationDefine ==
    /\ At("funDeclaration", "define")
    /\ Go(defineVariable(parser, Top(stack).global), Return)

varDeclarationStart ==
    /\ At("varDeclaration", "start")
    /\ LET v == parseVariable(parser, "Expect variable name.")
           m == match(v.p, "EQUAL")
       IN IF m.v
          THEN Go(m.p, Call([fn |-> "varDeclaration", pc |-> "define", global |-> v.v],
                            expressionFrame))
          ELSE Go(defineVariable(emitByte(m.p, Op("OP_NIL")), v.v), Return)

varDeclarationDefine ==
    /\ At("varDeclaration", "define")
    /\ Go(defineVariable(parser, Top(stack).global), Return)

\* the end of one turn of globalDeclaration's loop
globalDeclarationNext(p, global) ==
    LET m == match(emitSmart(p, "OP_DEF", global), "COMMA")
    IN IF m.v THEN Go(m.p, Resume(Frame("globalDeclaration")))
       ELSE Go(m.p, Return)

globalDeclarationStart ==
    /\ At("globalDeclaration", "start")
    /\ LET v == parseVariable(parser, "Expect variable name.")
           m == match(v.p, "EQUAL")
       IN IF m.v
          THEN Go(m.p, Call([fn |-> "globalDeclaration", pc |-> "define", global |-> v.v],
                            expressionFrame))
          ELSE globalDeclarationNext(emitByte(m.p, Op("OP_NIL")), v.v)

globalDeclarationDefine ==
    /\ At("globalDeclaration", "define")
    /\ globalDeclarationNext(parser, Top(stack).global)

(***************************************************************************)
(* The statements                                                          *)
(***************************************************************************)
expressionStatementStart ==
    /\ At("expressionStatement", "start")
    /\ Go([parser EXCEPT !.hadCall = FALSE, !.hadAssign = FALSE, !.subExprs = 0],
          Call(AtPc("end"), expressionFrame))

expressionStatementEnd ==
    /\ At("expressionStatement", "end")
    /\ LET p1 == emitByte(parser, Op("OP_POP"))
       IN IF p1.subExprs <= 1 /\ ~p1.hadCall /\ ~p1.hadAssign
          THEN Go(error(p1, "Unexpected expression syntax."), Return)
          ELSE Go(p1, Return)

ifStatementStart ==
    /\ At("ifStatement", "start")
    /\ Go(parser, Call([fn |-> "ifStatement", pc |-> "then", isInline |-> FALSE,
                        thenJump |-> 0, elseJump |-> 0],
                       expressionFrame))

ifStatementThen ==
    /\ At("ifStatement", "then")
    /\ LET p1 == consume(parser, "THEN", "Expect 'Then' after condition.")
           isInline == p1.current.line = p1.previous.line
           j == emitJump(p1, "OP_JMPF")
           p2 == emitByte(j.p, Op("OP_POP"))
       IN Go(p2, Call([Top(stack) EXCEPT !.pc = "else", !.isInline = isInline,
                                         !.thenJump = j.v],
                      statementFrame(p2)))

\* the end of ifStatement, after the else branch if there is one
ifStatementClose(p, frame) ==
    LET p1 == patchJump(p, frame.elseJump)
    IN IF ~frame.isInline
       THEN Go(consumes(p1, "END", "ENDIF", "Expect 'End' or 'EndIf' after block."),
               Return)
       ELSE Go(p1, Return)

\* ifStatement without line 795 (the POP at the target of the then-jump)
ifStatementElse_NoPop ==
    /\ At("ifStatement", "else")
    /\ LET j == emitJump(parser, "OP_JMP")
           p1 == patchJump(j.p, Top(stack).thenJump)
           frame == [Top(stack) EXCEPT !.pc = "end", !.elseJump = j.v]
           m == match(p1, "ELSE")
       IN IF m.v THEN Go(m.p, Call(frame, statementFrame(m.p)))
          ELSE ifStatementClose(m.p, frame)

ifStatementElse ==
    /\ At("ifStatement", "else")
    /\ LET j == emitJump(parser, "OP_JMP")
           p1 == emitByte(patchJump(j.p, Top(stack).thenJump), Op("OP_POP"))
           frame == [Top(stack) EXCEPT !.pc = "end", !.elseJump = j.v]
           m == match(p1, "ELSE")
       IN IF m.v THEN Go(m.p, Call(frame, statementFrame(m.p)))
          ELSE ifStatementClose(m.p, frame)

ifStatementEnd ==
    /\ At("ifStatement", "end")
    /\ ifStatementClose(parser, Top(stack))

printStatementStart ==
    /\ At("printStatement", "start")
    /\ Go(parser, Call([fn |-> "printStatement", pc |-> "next", count |-> 0],
                       expressionFrame))

printStatementNext ==
    /\ At("printStatement", "next")
    /\ LET n == Top(stack).count + 1
       IN IF n > MAX_PRINT
          THEN Go(error(parser, "Too many values in 'print' statement."), Return)
          ELSE LET m == match(parser, "COMMA")
               IN IF m.v
                  THEN Go(m.p, Call([Top(stack) EXCEPT !.count = n], expressionFrame))
                  ELSE Go(emitBytes(m.p, Op("OP_PRINT"), Arg(n)), Return)

returnStatementStart ==
    /\ At("returnStatement", "start")
    /\ IF curCompiler(parser).type = "TYPE_SCRIPT"
       THEN Go(error(parser, "Cannot return from top-level code."), Return)
       ELSE IF IF parser.current.type \in {"RBRACE", "END", "ENDFUNC"} THEN TRUE
               ELSE parser.current.line > parser.previous.line
       THEN Go(emitReturn(parser), Return)
       ELSE Go(parser, Call(AtPc("ret"), expressionFrame))

returnStatementRet ==
    /\ At("returnStatement", "ret")
    /\ Go(emitByte(parser, Op("OP_RET")), Return)

\* the end of exitStatement
exitStatementClose(p, hadParen) ==
    IF hadParen THEN Go(consume(p, "RPAREN", "Expected ')' closing."), Return)
    ELSE Go(p, Return)

exitStatementStart ==
    /\ At("exitStatement", "start")
    /\ LET hadParen == check(parser, "LPAREN")
       IN IF parser.current.line = parser.previous.line /\ ~check(parser, "RPAREN")
          THEN Go(parser, Call([fn |-> "exitStatement", pc |-> "end",
                                hadParen |-> hadParen], expressionFrame))
          ELSE exitStatementClose(emitByte(parser, Op("OP_NIL")), hadParen)

exitStatementEnd ==
    /\ At("exitStatement", "end")
    /\ exitStatementClose(parser, Top(stack).hadParen)

(***************************************************************************)
(* parsePrecedence                                                         *)
(***************************************************************************)
parsePrecedenceStart ==
    /\ At("parsePrecedence", "start")
    /\ LET p1 == advance(parser)
           prefixRule == getRule(p1.previous.type).prefix
           canAssign == Top(stack).precedence <= PREC_ASSIGNMENT
           frame == [Top(stack) EXCEPT !.pc = "prefixed", !.canAssign = canAssign]
       IN CASE prefixRule = "NULL"    -> Go(error(p1, "Expect expression."), Return)
            [] prefixRule = "number"  -> Go(number(p1), Resume(frame))
            [] prefixRule = "string"  -> Go(string(p1), Resume(frame))
            [] prefixRule = "literal" -> Go(literal(p1), Resume(frame))
            [] OTHER -> Go(p1, Call(frame, ruleFrame(prefixRule, canAssign)))

parsePrecedenceInfix ==
    /\ result = "running"
    /\ Len(stack) > 0
    /\ Top(stack).fn = "parsePrecedence"
    /\ Top(stack).pc \in {"prefixed", "infix"}
    /\ LET p1 == IF Top(stack).pc = "prefixed"
                 THEN [parser EXCEPT !.subExprs = @ + 1]
                 ELSE parser
           canAssign == Top(stack).canAssign
       IN IF /\ Top(stack).precedence <= getRule(p1.current.type).precedence
             /\ ~(p1.current.line > p1.previous.line)
          THEN LET p2 == IF check(p1, "LPAREN") THEN [p1 EXCEPT !.hadCall = TRUE]
                         ELSE p1
                   p3 == advance(p2)
                   infixRule == getRule(p3.previous.type).infix
               IN Go(p3, Call(AtPc("infix"), ruleFrame(infixRule, canAssign)))
          ELSE IF canAssign
          THEN LET m == match(p1, "EQUAL")
               IN IF m.v THEN Go(error(m.p, "Invalid assignment target."), Return)
                  ELSE Go(m.p, Return)
          ELSE Go(p1, Return)

(***************************************************************************)
(* The prefix rules that recurse                                           *)
(***************************************************************************)
groupingStart ==
    /\ At("grouping", "start")
    /\ Go(parser, Call(AtPc("close"), expressionFrame))

groupingClose ==
    /\ At("grouping", "close")
    /\ Go(consume(parser, "RPAREN", "Expect ')' after expression."), Return)

unaryStart ==
    /\ At("unary", "start")
    /\ Go(parser, Call([Top(stack) EXCEPT !.pc = "emit",
                                          !.operatorType = parser.previous.type],
                       parsePrecedenceFrame(PREC_UNARY)))

unaryEmitOp ==
    /\ At("unary", "emit")
    /\ Go(unaryEmit(parser, Top(stack).operatorType), Return)

\* the end of map
mapClose(p, n) ==
    Go(emitBytes(consume(p, "RBRACKET", "Expected closing ']'."), Op("OP_MAP"), Arg(n)),
       Return)

mapStart ==
    /\ At("map", "start")
    /\ IF ~check(parser, "RBRACKET")
       THEN Go(parser, Call(AtPc("item"), expressionFrame))
       ELSE mapClose(parser, 0)

mapItem ==
    /\ At("map", "item")
    /\ LET n == (Top(stack).count + 1) % 256
           m == match(parser, "COMMA")
       IN IF m.v THEN Go(m.p, Call([Top(stack) EXCEPT !.count = n], expressionFrame))
          ELSE mapClose(m.p, n)

variableStart ==
    /\ At("variable", "start")
    /\ LET name == parser.previous
           r == resolveLocal(parser, curCompiler(parser), name)
           g == IF r.v # -1 THEN [p |-> r.p, v |-> r.v]
                ELSE identifierConstant(r.p, name)
           getOp == IF r.v # -1 THEN "OP_LD" ELSE "OP_GLD"
           setOp == IF r.v # -1 THEN "OP_ST" ELSE "OP_GST"
           m == IF Top(stack).canAssign THEN match(g.p, "EQUAL")
                ELSE [p |-> g.p, v |-> FALSE]
       IN IF m.v
          THEN Go(m.p, Call([Top(stack) EXCEPT !.pc = "set", !.name = name,
                                               !.arg = g.v, !.setOp = setOp],
                            expressionFrame))
          ELSE Go(emitSmart(m.p, getOp, g.v), Return)

variableSet ==
    /\ At("variable", "set")
    /\ Go([emitSmart(parser, Top(stack).setOp, Top(stack).arg) EXCEPT
               !.hadAssign = TRUE],
          Return)

(***************************************************************************)
(* The infix rules                                                         *)
(***************************************************************************)
\* binary parsing its right operand at the operator's own level (without the
\* + 1 of line 420): operators of one level associate to the right
binaryStart_SameLevel ==
    /\ At("binary", "start")
    /\ LET operatorType == parser.previous.type
           rule == getRule(operatorType)
       IN Go(parser, Call([Top(stack) EXCEPT !.pc = "emit",
                                             !.operatorType = operatorType],
                          parsePrecedenceFrame(rule.precedence)))

binaryStart ==
    /\ At("binary", "start")
    /\ LET operatorType == parser.previous.type
           rule == getRule(operatorType)
       IN Go(parser, Call([Top(stack) EXCEPT !.pc = "emit",
                                             !.operatorType = operatorType],
                          parsePrecedenceFrame(rule.precedence + 1)))

binaryEmitOp ==
    /\ At("binary", "emit")
    /\ Go(binaryEmit(parser, Top(stack).operatorType), Return)

\* the end of argumentList, and of call
callClose(p, argCount) ==
    Go(emitBytes(consume(p, "RPAREN", "Expect ')' after arguments."),
                 Op("OP_CALL"), Arg(argCount)),
       Return)

callStart ==
    /\ At("call", "start")
    /\ IF ~check(parser, "RPAREN")
       THEN Go(parser, Call(AtPc("arg"), expressionFrame))
       ELSE callClose(parser, 0)

callArg ==
    /\ At("call", "arg")
    /\ LET argCount == (Top(stack).count + 1) % 256
           p1 == IF argCount = MAX_ARGS
                 THEN error(parser, "Cannot have more than 32 arguments.")
                 ELSE parser
           m == match(p1, "COMMA")
       IN IF m.v
          THEN Go(m.p, Call([Top(stack) EXCEPT !.count = argCount], expressionFrame))
          ELSE callClose(m.p, argCount)

dotStart ==
    /\ At("dot", "start")
    /\ LET p1 == consume(parser, "IDENTIFIER", "Expect member name.")
           c == identifierConstant(p1, p1.previous)
           m == IF Top(stack).canAssign THEN match(c.p, "EQUAL")
                ELSE [p |-> c.p, v |-> FALSE]
       IN IF m.v
          THEN Go(m.p, Call([Top(stack) EXCEPT !.pc = "set", !.arg = c.v],
                            expressionFrame))
          ELSE Go(emitBytes(m.p, Op("OP_GET"), Arg(c.v)), Return)

dotSet ==
    /\ At("dot", "set")
    /\ Go(emitBytes(parser, Op("OP_SET"), Arg(Top(stack).arg)), Return)

indexStart ==
    /\ At("index_", "start")
    /\ Go(parser, Call(AtPc("close"), expressionFrame))

indexClose ==
    /\ At("index_", "close")
    /\ LET p1 == consume(parser, "RBRACKET", "Expected closing ']'")
           m == IF Top(stack).canAssign THEN match(p1, "EQUAL")
                ELSE [p |-> p1, v |-> FALSE]
       IN IF m.v THEN Go(m.p, Call(AtPc("set"), expressionFrame))
          ELSE Go(emitByte(m.p, Op("OP_GETI")), Return)

indexSet ==
    /\ At("index_", "set")
    /\ Go([emitByte(parser, Op("OP_SETI")) EXCEPT !.hadAssign = TRUE], Return)

andStart ==
    /\ At("and_", "start")
    /\ LET j == emitJump(parser, "OP_JMPF")
       IN Go(emitByte(j.p, Op("OP_POP")),
             Call([Top(stack) EXCEPT !.pc = "patch", !.jump = j.v],
                  parsePrecedenceFrame(PREC_AND)))

andPatch ==
    /\ At("and_", "patch")
    /\ Go(patchJump(parser, Top(stack).jump), Return)

orStart ==
    /\ At("or_", "start")
    /\ LET elseJump == emitJump(parser, "OP_JMPF")
           endJump == emitJump(elseJump.p, "OP_JMP")
           p1 == emitByte(patchJump(endJump.p, elseJump.v), Op("OP_POP"))
       IN Go(p1, Call([Top(stack) EXCEPT !.pc = "patch", !.jump = endJump.v],
                      parsePrecedenceFrame(PREC_OR)))

orPatch ==
    /\ At("or_", "patch")
    /\ Go(patchJump(parser, Top(stack).jump), Return)

(***************************************************************************)
(* The sources compiled.                                                   *)
(***************************************************************************)
\* the token a word of source text lexes to: a word in capitals is the
\* keyword or punctuation of that name, "1" a number, "s" a string, "@" a
\* character the lexer rejects, any other word an identifier
Word(w, line) ==
    CASE w = "1" -> Num(line)
      [] w = "s" -> Str(line)
      [] w = "@" -> Err(line)
      [] w \in {"a", "b", "c", "f", "g", "x", "y", "z"} -> Id(w, line)
      [] OTHER -> K(w, line)

\* the tokens of a text given as its lines, each a sequence of words
RECURSIVE LexFrom(_, _)
LexFrom(lines, n) ==
    IF n > Len(lines) THEN <<>>
    ELSE [i \in 1..Len(lines[n]) |-> Word(lines[n][i], n)] \o LexFrom(lines, n + 1)

Lex(lines) == LexFrom(lines, 1)

\* texts that between them use every rule of the grammar
Texts ==
    { <<<<"IF", "a", "THEN", "PRINT", "1", "ELSE", "PRINT", "1">>>>,
      <<<<"IF", "a", "THEN">>, <<"PRINT", "1", "ELSE", "VAR", "y">>, <<"ENDIF">>>>,
      <<<<"IF", "a", "THEN", "VAR", "y">>>>,
      <<<<"IF", "a", "THEN">>, <<"VAR", "y">>, <<"ELSE", "PRINT", "1">>, <<"END">>>>,
      <<<<"IF", "a", "THEN", "LBRACE", "VAR", "y", "RBRACE", "x", "EQUAL", "1">>>>,
      <<<<"IF", "a", "AND", "b", "THEN", "IF", "c", "THEN", "PRINT", "1">>>>,
      <<<<"IF", "a", "THEN", "x", "EQUAL", "1">>>>,
      <<<<"IF", "a", "THEN", "PRINT", "1", "ELSE", "x", "EQUAL", "1">>>>,
      <<<<"FUNC", "f", "LPAREN", "a", "COMMA", "b", "RPAREN">>,
        <<"RETURN", "a", "PLUS", "b">>, <<"END">>, <<"f", "LPAREN", "1", "COMMA", "1", "RPAREN">>>>,
      <<<<"FUNC", "f", "LPAREN", "RPAREN">>, <<"RETURN">>, <<"ENDFUNC">>>>,
      <<<<"FUNC", "f", "LPAREN", "RPAREN">>, <<"VAR", "x">>,
        <<"FUNC", "g", "LPAREN", "RPAREN">>, <<"RETURN", "x">>, <<"END">>, <<"END">>>>,
      <<<<"FUNC", "f", "LPAREN", "x", "RPAREN">>, <<"LBRACE", "VAR", "y", "EQUAL", "x">>,
        <<"IF", "y", "THEN", "RETURN", "y", "ELSE", "RETURN", "x">>, <<"RBRACE">>, <<"END">>>>,
      <<<<"FUNC", "f", "LPAREN", "RPAREN">>, <<"LBRACE", "x", "EQUAL", "RPAREN">>>>,
      <<<<"EXIT">>, <<"EXIT", "1">>, <<"EXIT", "LPAREN", "1", "RPAREN">>>>,
      <<<<"x", "EQUAL", "LBRACKET", "1", "COMMA", "s", "RBRACKET">>,
        <<"x", "LBRACKET", "1", "RBRACKET", "EQUAL", "LBRACKET", "RBRACKET">>,
        <<"x", "EQUAL", "y", "LBRACKET", "1", "RBRACKET">>>>,
      <<<<"x", "DOT", "y", "EQUAL", "1">>, <<"x", "EQUAL", "y", "DOT", "z">>>>,
      <<<<"x", "EQUAL", "MINUS", "1">>, <<"x", "EQUAL", "NOT", "TRUE">>,
        <<"x", "EQUAL", "LPAREN", "1", "PLUS", "1", "RPAREN", "STAR", "1">>>>,
      <<<<"x", "EQUAL", "a", "AND", "b", "OR", "c">>>>,
      <<<<"x", "EQUAL", "a", "OR", "b", "AND", "NULL">>>>,
      <<<<"LBRACE", "VAR", "x", "EQUAL", "1", "x", "EQUAL", "x", "PLUS", "1", "RBRACE">>>>,
      <<<<"LBRACE", "VAR", "x", "EQUAL", "x", "RBRACE">>>>,
      <<<<"LBRACE", "VAR", "x", "LBRACE", "VAR", "x", "x", "EQUAL", "1", "RBRACE", "RBRACE">>>>,
      <<<<"LBRACE", "VAR", "x", "VAR", "x", "RBRACE">>>>,
      <<<<"FUNC", "LPAREN", "x", "RPAREN">>, <<"VAR", "x">>, <<"END">>>>,
      <<<<"LBRACE", "LBRACE", "VAR", "a", "GLOBAL", "g", "RBRACE">>,
        <<"VAR", "b", "LBRACE", "VAR", "a", "RBRACE", "RBRACE">>>>,
      <<<<"LBRACE", "GLOBAL", "g", "COMMA", "x", "EQUAL", "1", "RBRACE">>>>,
      <<<<"LBRACE", "FUNC", "f", "LPAREN", "RPAREN", "END", "f", "LPAREN", "RPAREN", "RBRACE">>>>,
      <<<<"RETURN">>, <<"PRINT", "1", "COMMA", "x">>>>,
      <<<<"x", "EQUAL", "a", "MINUS", "b", "MINUS", "c">>>>,
      <<<<"x", "EQUAL", "a", "PLUS", "b", "STAR", "c">>>>,
      <<<<"x", "EQUAL", "a">>, <<"MINUS", "b">>>>,
      <<<<"x", "EQUAL", "a", "LESS", "b", "EQUAL_EQUAL", "c", "GREATER", "b">>>> }

TextSources == {Lex(t) : t \in Texts}

\* every token sequence of at most MaxLen tokens over FreeTokens, on one line,
\* at the top level, inside a block, inside a function and after a Then
FreeTokens ==
    {Id("x", 1), K("EQUAL", 1), K("RPAREN", 1), Err(1), K("GLOBAL", 1), K("VAR", 1)}

FreePrefixes ==
    {Lex(<<t>>) : t \in {<<>>, <<"LBRACE">>, <<"FUNC", "f", "LPAREN", "RPAREN">>,
                         <<"IF", "a", "THEN", "PRINT">>}}

FreeSources ==
    {pre \o s : pre \in FreePrefixes, s \in UNION {[1..n -> FreeTokens] : n \in 0..MaxLen}}

Name(i) == "v" \o ToString(i)

\* f(a, a, ..., a) with n arguments
CallSource(n) ==
    <<Id("f", 1), K("LPAREN", 1)>>
    \o [i \in 1..(IF n = 0 THEN 0 ELSE 2 * n - 1) |->
           IF i % 2 = 1 THEN Id("a", 1) ELSE K("COMMA", 1)]
    \o <<K("RPAREN", 1)>>

\* { var v1 var v2 ... var vn last }
LocalsSource(n, last) ==
    <<K("LBRACE", 1)>>
    \o [i \in 1..(2 * n) |-> IF i % 2 = 1 THEN K("VAR", 1) ELSE Id(Name(i \div 2), 1)]
    \o last \o <<K("RBRACE", 1)>>

\* global v1, v2, ..., vn
GlobalsSource(n) ==
    <<K("GLOBAL", 1)>>
    \o [i \in 1..(2 * n - 1) |-> IF i % 2 = 1 THEN Id(Name((i + 1) \div 2), 1)
                                 ELSE K("COMMA", 1)]

LongSources ==
    {CallSource(n) : n \in {0, 1, 2} \cup ((MAX_ARGS - 1)..(MAX_ARGS + MaxOver))}
    \cup {LocalsSource(UINT8_COUNT - 1 + MaxOver, <<>>),
          LocalsSource(UINT8_COUNT - 1, <<K("VAR", 1), Id(Name(1), 1)>>),
          LocalsSource(UINT8_COUNT - 1,
                       <<K("LBRACE", 1), K("VAR", 1), Id(Name(1), 1), K("RBRACE", 1)>>),
          GlobalsSource(UINT8_COUNT + MaxOver)}

\* print v1 o1 v2 o2 v3 ...: the operands joined by the binary operators ops,
\* where places[i] tells which token of the i-th pair starts a new line: the
\* operator, the operand after it, or neither
BinaryOps ==
    {"EQUAL_EQUAL", "BANG_EQUAL", "LESS", "LESS_EQUAL", "GREATER", "GREATER_EQUAL",
     "PLUS", "MINUS", "STAR", "SLASH"}

Places == {"same", "operator", "operand"}

RECURSIVE ExprFrom(_, _, _, _)
ExprFrom(ops, places, i, line) ==
    IF i > Len(ops) THEN <<>>
    ELSE LET l1 == IF places[i] = "operator" THEN line + 1 ELSE line
             l2 == IF places[i] = "operand" THEN l1 + 1 ELSE l1
         IN <<K(ops[i], l1), Id(Name(i + 1), l2)>> \o ExprFrom(ops, places, i + 1, l2)

ExprSource(first, ops, places) ==
    <<K("PRINT", 1), Id(Name(1), first)>> \o ExprFrom(ops, places, 1, first)

\* one operator of each precedence level
LevelOps == {"EQUAL_EQUAL", "LESS", "MINUS", "STAR"}

ExprSources ==
    {ExprSource(first, <<o>>, <<pl>>) : first \in {1, 2}, o \in BinaryOps, pl \in Places}
    \cup {ExprSource(1, <<o1, o2>>, <<p1, p2>>) :
              o1 \in BinaryOps, o2 \in BinaryOps, p1 \in Places, p2 \in Places}
    \cup {ExprSource(1, ops, <<"same", "operand", "same">>) : ops \in [1..3 -> LevelOps]}

Sources == TextSources \cup FreeSources \cup LongSources \cup ExprSources

(***************************************************************************)
(* The state machine.                                                      *)
(***************************************************************************)
Init ==
    /\ source \in Sources
    /\ parser = [lexer |-> 1, current |-> NoToken, previous |-> NoToken,
                 subExprs |-> 0, hadCall |-> FALSE, hadAssign |-> FALSE,
                 hadError |-> FALSE, panicMode |-> FALSE,
                 compiler |-> <<>>, functions |-> <<>>,
                 stderr |-> <<>>, reported |-> 0,
                 emitted |-> <<>>, patched |-> <<>>]
    /\ stack = <<Frame("compile")>>
    /\ result = "running"

Next ==
    \/ compileStart
    \/ compileLoop
    \/ declarationStart
    \/ declarationSync
    \/ synchronize
    \/ declarationReturn
    \/ statementStart
    \/ statementElseLoop
    \/ statementEndScope
    \/ statementReturn
    \/ block
    \/ inlineBlockStart
    \/ inlineBlockLoop
    \/ inlineBlockReturn
    \/ functionStart
    \/ functionBody
    \/ funDeclarationStart
    \/ funDeclarationDefine
    \/ varDeclarationStart
    \/ varDeclarationDefine
    \/ globalDeclarationStart
    \/ globalDeclarationDefine
    \/ expressionStatementStart
    \/ expressionStatementEnd
    \/ ifStatementStart
    \/ ifStatementThen
    \/ ifStatementElse
    \/ ifStatementEnd
    \/ printStatementStart
    \/ printStatementNext
    \/ returnStatementStart
    \/ returnStatementRet
    \/ exitStatementStart
    \/ exitStatementEnd
    \/ parsePrecedenceStart
    \/ parsePrecedenceInfix
    \/ groupingStart
    \/ groupingClose
    \/ unaryStart
    \/ unaryEmitOp
    \/ mapStart
    \/ mapItem
    \/ variableStart
    \/ variableSet
    \/ binaryStart
    \/ binaryEmitOp
    \/ callStart
    \/ callArg
    \/ dotStart
    \/ dotSet
    \/ indexStart
    \/ indexClose
    \/ indexSet
    \/ andStart
    \/ andPatch
    \/ orStart
    \/ orPatch

Spec == Init /\ [][Next]_vars

(***************************************************************************)
(* Properties.                                                             *)
(***************************************************************************)
Done == result \in {"NULL", "function"}

\* the diagnostics a step writes
NewDiagnostics ==
    SubSeq(parser'.stderr, Len(parser.stderr) + 1, Len(parser'.stderr))

Messages(log) == {log[i].message : i \in DOMAIN log}

\* C1: hadError never goes from true back to false during a compile call, and
\* compile returns a function if and only if no diagnostic was reported.
C1_HadErrorSticky ==
    /\ [][parser.hadError => parser'.hadError]_vars
    /\ [](Done => (result = "function" <=> Len(parser.stderr) = 0))

C1_Witness == result = "NULL" /\ Len(parser.stderr) >= 2

\* C2 (the parts that hold): panicMode is set only by a step that reports a
\* diagnostic and cleared only by synchronize; a step that begins with it set
\* reports nothing; at most one diagnostic is reported since synchronize last
\* began.
C2_PanicSteps ==
    /\ [][~parser.panicMode /\ parser'.panicMode => Len(NewDiagnostics) = 1]_vars
    /\ [][parser.panicMode /\ ~parser'.panicMode => At("declaration", "sync")]_vars
    /\ [][parser.panicMode => NewDiagnostics = <<>>]_vars
    /\ [](parser.reported <= 1)

\* C2 as claimed: the above, and panicMode is false whenever declaration
\* returns.
C2_Original ==
    /\ C2_PanicSteps
    /\ [](At("declaration", "return") => ~parser.panicMode)

\* C2 as amended: the above, and panicMode is false whenever declaration
\* returns, unless the one diagnostic reported since synchronize began is the
\* lexer's, for an ERROR token that synchronize skipped.
C2_PanicMode ==
    /\ C2_PanicSteps
    /\ [](At("declaration", "return") /\ parser.panicMode
            => (parser.reported = 1 /\ Top(parser.stderr).at = "ERROR"))

C2_Witness ==
    At("declaration", "return") /\ ~parser.panicMode /\ Len(parser.stderr) >= 2

\* C3 as claimed: synchronize never advances past a token of kind CLASS, FUNC,
\* VAR, GLOBAL, FOR, IF, WHILE, PRINT or RETURN, and when it returns current
\* is of one of these kinds or EOF.
ClaimedSyncTypes ==
    {"CLASS", "FUNC", "VAR", "GLOBAL", "FOR", "IF", "WHILE", "PRINT", "RETURN"}

C3_Original ==
    /\ [][At("declaration", "synchronize") /\ parser'.previous # parser.previous
            => parser.current.type \notin ClaimedSyncTypes]_vars
    /\ [][At("declaration", "synchronize") /\ stack' # stack
            => parser.current.type \in ClaimedSyncTypes \cup {"EOF"}]_vars

\* C4 as claimed: a call with n <= 255 arguments reports no argument-count
\* diagnostic, and when its argument list closes CALL n is emitted.
ArgumentCountMessage == "Cannot have more than 32 arguments."

C4_Original ==
    [][At("call", "arg") /\ Top(stack).count + 1 <= UINT8_MAX
         => (/\ ArgumentCountMessage \notin Messages(NewDiagnostics)
             /\ (Len(stack') < Len(stack)
                   => LET code == currentChunk(parser').code
                      IN /\ code[Len(code) - 1] = Op("OP_CALL")
                         /\ code[Len(code)] = Arg(Top(stack).count + 1)))]_vars

\* a step that declares a local (calls addLocal) in a frame that holds
\* UINT8_COUNT locals
TooManyLocalsMessage == "Too many local variables in function."

DeclaresWhenFull ==
    /\ \/ At("varDeclaration", "start")
       \/ At("globalDeclaration", "start")
       \/ At("funDeclaration", "start")
    /\ curCompiler(parser).scopeDepth > 0
    /\ localCount(curCompiler(parser)) = UINT8_COUNT

LocalCountBounded ==
    \A i \in DOMAIN parser.compiler : localCount(parser.compiler[i]) <= UINT8_COUNT

\* C5 as claimed: localCount <= 256 in every frame, and declaring a local in
\* a frame that holds 256 reports the too-many-locals diagnostic and adds none.
C5_Original ==
    /\ [](LocalCountBounded)
    /\ [][DeclaresWhenFull
            => (/\ TooManyLocalsMessage \in Messages(NewDiagnostics)
                /\ parser'.compiler[Len(parser.compiler)].locals
                     = curCompiler(parser).locals)]_vars

\* the parser is in panic mode when the declaration reaches addLocal: it was
\* at entry, or the name is missing, or it is a duplicate
PanicAtAddLocal ==
    \/ parser.panicMode
    \/ parser.current.type # "IDENTIFIER"
    \/ DuplicateInScope(curCompiler(parser), parser.current.lexeme)

\* C5 as amended: localCount <= 256 in every frame, and declaring a local in
\* a frame that holds 256 adds none and leaves hadError set; it reports the
\* too-many-locals diagnostic unless the parser is in panic mode when addLocal
\* is reached (at entry, or by a diagnostic of the same declaration: a missing
\* name, a duplicate name), and then the diagnostic is not written.
C5_LocalLimit ==
    /\ [](LocalCountBounded)
    /\ [][DeclaresWhenFull
            => (/\ localCount(parser'.compiler[Len(parser.compiler)]) = UINT8_COUNT
                /\ parser'.hadError
                /\ (~PanicAtAddLocal
                      => Messages(NewDiagnostics) = {TooManyLocalsMessage})
                /\ (PanicAtAddLocal
                      => TooManyLocalsMessage \notin Messages(NewDiagnostics)))]_vars

C5_Witness ==
    /\ Len(parser.compiler) = 1
    /\ localCount(curCompiler(parser)) = UINT8_COUNT
    /\ Len(parser.stderr) > 0
    /\ Top(parser.stderr).message = TooManyLocalsMessage

\* C6: in a scope of depth > 0 a local declared by var has depth -1 while its
\* initializer is parsed; a reference in the initializer to its name leaves
\* hadError set; when the declaration completes the local has the depth of
\* its scope, and a reference whose innermost match in the frame has
\* completed its declaration compiles to LD or ST of that slot and reports no
\* own-initializer diagnostic.
OwnInitializerMessage == "Cannot read local variable in its own initializer."

InInitializer ==
    /\ \E i \in DOMAIN stack : stack[i].fn = "varDeclaration" /\ stack[i].pc = "define"
    /\ curCompiler(parser).scopeDepth > 0

ReferenceInInitializer ==
    /\ At("variable", "start")
    /\ InInitializer
    /\ Top(curCompiler(parser).locals).depth = -1
    /\ parser.previous.lexeme = Top(curCompiler(parser).locals).name

VarDeclarationCompletes ==
    /\ \/ At("varDeclaration", "define")
       \/ At("varDeclaration", "start") /\ Len(stack') < Len(stack)
    /\ curCompiler(parser).scopeDepth > 0

\* the reference at previous has its innermost match in the frame at slot,
\* and that local has completed its declaration
ReferenceResolves(slot) ==
    /\ At("variable", "start")
    /\ slot = InnermostSlot(curCompiler(parser), parser.previous.lexeme)
    /\ slot # -1
    /\ curCompiler(parser).locals[slot + 1].depth # -1

\* the step compiles the reference as a read or a write with this operand
CompiledAs(getOp, setOp, arg) ==
    IF Len(stack') < Len(stack)
    THEN LET code == currentChunk(parser').code
         IN code[Len(code) - 1] = Op(getOp) /\ code[Len(code)] = Arg(arg)
    ELSE stack'[Len(stack)].setOp = setOp /\ stack'[Len(stack)].arg = arg

ReferenceToEnclosingLocal ==
    /\ At("variable", "start")
    /\ Len(parser.compiler) >= 2
    /\ InnermostSlot(curCompiler(parser), parser.previous.lexeme) = -1
    /\ LET enclosing == parser.compiler[Len(parser.compiler) - 1]
           slot == InnermostSlot(enclosing, parser.previous.lexeme)
       IN slot # -1 /\ enclosing.locals[slot + 1].depth # -1

C7_Original ==
    [][ReferenceToEnclosingLocal
         => \A arg \in 0..UINT8_MAX : ~CompiledAs("OP_GLD", "OP_GST", arg)]_vars

\* C8 as claimed: every chunk's constants vector holds at most 256 entries,
\* and every constant index emitted is in 0..255.
C8_Original ==
    \A f \in DOMAIN parser.functions :
        /\ Len(parser.functions[f].chunk.constants) <= UINT8_COUNT
        /\ \A i \in DOMAIN parser.functions[f].chunk.code :
               parser.functions[f].chunk.code[i].n \in 0..UINT8_MAX

\* C9: when compile returns a function, every placeholder emitJump produced
\* was patched exactly once, on the chunk it was emitted into, it follows a
\* JMP or JMPF, and its operand designates an offset t of that chunk with
\* placeholder + 2 <= t <= the length of the chunk's code.
PatchesOf(e) == {j \in DOMAIN parser.patched : parser.patched[j] = e}

JumpTarget(e) ==
    LET code == parser.functions[e.chunk].chunk.code
    IN e.offset + 2 + code[e.offset + 1].n * 256 + code[e.offset + 2].n

C9_JumpsPatched ==
    result = "function"
      => /\ \A i \in DOMAIN parser.emitted :
               LET e == parser.emitted[i]
                   code == parser.functions[e.chunk].chunk.code
               IN /\ Cardinality(PatchesOf(e)) = 1
                  /\ code[e.offset].op \in {"OP_JMP", "OP_JMPF"}
                  /\ e.offset + 2 <= JumpTarget(e)
                  /\ JumpTarget(e) <= Len(code)
         /\ \A j \in DOMAIN parser.patched :
               \E i \in DOMAIN parser.emitted : parser.emitted[i] = parser.patched[j]

C9_Witness ==
    /\ result = "function"
    /\ Len(parser.emitted) >= 3
    /\ \E i \in DOMAIN parser.emitted : JumpTarget(parser.emitted[i]) > parser.emitted[i].offset + 2

\* C10: when a call of statement or declaration returns, the current compiler
\* frame and its scopeDepth are those the call was entered with, and no
\* scopeDepth is ever negative.
C10_ScopesBalanced ==
    /\ (At("declaration", "return") \/ At("statement", "return"))
         => (/\ Len(parser.compiler) = Top(stack).enter.compiler
             /\ curCompiler(parser).scopeDepth = Top(stack).enter.scopeDepth)
    /\ \A i \in DOMAIN parser.compiler : parser.compiler[i].scopeDepth >= 0

C10_Witness ==
    /\ At("declaration", "return")
    /\ parser.hadError
    /\ Len(parser.functions) > Len(parser.compiler)

\* a step in which statement calls endScope (parser.c:919, 924, 931)
ClosesScope ==
    /\ \/ At("statement", "endScope")
       \/ At("statement", "elseLoop") /\ (check(parser, "ENDIF") \/ check(parser, "EOF"))
    /\ stack' # stack

\* C11 as claimed: when the endScope that closes a block returns, localCount
\* is what it was at the matching beginScope, no remaining local is deeper
\* than scopeDepth or uninitialized (depth -1), and the step emitted exactly
\* one POP per removed local.
C11_Original ==
    [][ClosesScope
         => LET before == curCompiler(parser)
                after == curCompiler(parser')
                code == currentChunk(parser).code
                code2 == currentChunk(parser').code
                removed == localCount(before) - localCount(after)
            IN /\ localCount(after) = Top(stack).enter.localCount
               /\ \A i \in DOMAIN after.locals :
                      /\ after.locals[i].depth <= after.scopeDepth
                      /\ after.locals[i].depth # -1
               /\ Len(code2) = Len(code) + removed
               /\ \A i \in (Len(code) + 1)..Len(code2) : code2[i] = Op("OP_POP")]_vars

\* the step in which ifStatement returns, and the offsets of the operands of
\* its two jumps (the else-jump is emitted in this step when no else follows)
IfStatementReturns ==
    /\ At("ifStatement", "else") \/ At("ifStatement", "end")
    /\ Len(stack') < Len(stack)

IfThenJump == Top(stack).thenJump
IfElseJump == IF Top(stack).pc = "else" THEN count(parser) + 1 ELSE Top(stack).elseJump

\* where the jump whose operand is at this offset of the code lands
LandsAt(code, offset) ==
    offset + 2 + code[offset + 1].n * 256 + code[offset + 2].n

\* C12: in the code of an if statement, with or without else, the path of a
\* true condition is JMPF (not taken), one POP, the then-branch, JMP to the
\* end; the path of a false condition is JMPF taken to the one POP that
\* follows the JMP, the else-branch (if any), the end.  Each path holds
\* exactly one POP outside the branch bodies.
C12_IfPops ==
    [][IfStatementReturns
         => LET code == currentChunk(parser').code
                then == IfThenJump
                else == IfElseJump
            IN /\ code[then] = Op("OP_JMPF")
               /\ code[then + 3] = Op("OP_POP")
               /\ then + 3 < else
               /\ else + 3 <= Len(code)
               /\ code[else] = Op("OP_JMP")
               /\ LandsAt(code, else) = Len(code)
               /\ LandsAt(code, then) = else + 2
               /\ code[else + 3] = Op("OP_POP")]_vars

\* an if statement with a then-branch and an else-branch is about to return
C12_Witness ==
    /\ At("ifStatement", "end")
    /\ ~parser.hadError
    /\ Top(stack).elseJump > Top(stack).thenJump + 4
    /\ count(parser) > Top(stack).elseJump + 3

\* the source is print followed by operands joined by binary operators
IsBinaryPrint(src) ==
    /\ Len(src) >= 4
    /\ Len(src) % 2 = 0
    /\ src[1].type = "PRINT"
    /\ \A i \in 2..Len(src) :
           IF i % 2 = 0 THEN src[i].type = "IDENTIFIER" ELSE src[i].type \in BinaryOps

\* no binary operator of the source is the first token of its line
NoOperatorStartsLine(src) ==
    \A i \in 2..Len(src) : src[i].type \in BinaryOps => src[i].line = src[i - 1].line

\* the precedence level of a binary operator, higher binds tighter
Level(op) ==
    CASE op \in {"EQUAL_EQUAL", "BANG_EQUAL"} -> 1
      [] op \in {"LESS", "LESS_EQUAL", "GREATER", "GREATER_EQUAL"} -> 2
      [] op \in {"PLUS", "MINUS"} -> 3
      [] op \in {"STAR", "SLASH"} -> 4

\* the postfix form of operand, operator, operand, ...: the root of the parse
\* is the last operator among those of the lowest level
RECURSIVE Postfix(_)
Postfix(e) ==
    IF Len(e) = 1 THEN e
    ELSE LET opsAt == {i \in 1..Len(e) : i % 2 = 0}
             root == CHOOSE i \in opsAt : \A j \in opsAt :
                         \/ Level(e[j].type) > Level(e[i].type)
                         \/ Level(e[j].type) = Level(e[i].type) /\ j <= i
         IN Postfix(SubSeq(e, 1, root - 1)) \o Postfix(SubSeq(e, root + 1, Len(e)))
            \o <<e[root]>>

\* the opcodes of a binary operator
Opcodes(op) ==
    CASE op = "EQUAL_EQUAL"   -> <<Op("OP_EQ")>>
      [] op = "BANG_EQUAL"    -> <<Op("OP_EQ"), Op("OP_NOT")>>
      [] op = "LESS"          -> <<Op("OP_LT")>>
      [] op = "LESS_EQUAL"    -> <<Op("OP_LE")>>
      [] op = "GREATER"       -> <<Op("OP_LE"), Op("OP_NOT")>>
      [] op = "GREATER_EQUAL" -> <<Op("OP_LT"), Op("OP_NOT")>>
      [] op = "PLUS"          -> <<Op("OP_ADD")>>
      [] op = "MINUS"         -> <<Op("OP_SUB")>>
      [] op = "STAR"          -> <<Op("OP_MUL")>>
      [] op = "SLASH"         -> <<Op("OP_DIV")>>

\* the code of a postfix form whose operands are globals: the k-th operand
\* loads the k-th constant of the chunk
RECURSIVE CodeOf(_, _)
CodeOf(post, k) ==
    IF post = <<>> THEN <<>>
    ELSE IF Head(post).type = "IDENTIFIER"
    THEN <<Op("OP_GLD"), Arg(k)>> \o CodeOf(Tail(post), k + 1)
    ELSE Opcodes(Head(post).type) \o CodeOf(Tail(post), k)

\* the script's code is the postfix form of the expression of the source,
\* followed by PRINT, and its constants name the operands in order
EmitsPostfix ==
    LET chunk == parser.functions[1].chunk
        expected == CodeOf(Postfix(Tail(source)), 0)
    IN /\ Len(chunk.code) > Len(expected)
       /\ SubSeq(chunk.code, 1, Len(expected)) = expected
       /\ chunk.code[Len(expected) + 1] = Op("OP_PRINT")
       /\ Len(chunk.constants) = Len(source) \div 2
       /\ \A k \in 1..Len(chunk.constants) :
              chunk.constants[k] = <<"str", source[2 * k].lexeme>>

DuplicateMessage == "Variable with this name already declared in this scope."

\* a step that declares the identifier at current as a local
DeclaresLocal ==
    /\ \/ At("varDeclaration", "start")
       \/ At("globalDeclaration", "start")
       \/ At("funDeclaration", "start")
    /\ stack' # stack
    /\ curCompiler(parser).scopeDepth > 0
    /\ parser.current.type = "IDENTIFIER"

\* the slots (from 1) of the locals of the current frame that have this name
SlotsNamed(name) ==
    {i \in DOMAIN curCompiler(parser).locals : curCompiler(parser).locals[i].name = name}

\* a local of this name was declared at the current scope depth
SameDepth(name) ==
    \E i \in SlotsNamed(name) :
        curCompiler(parser).locals[i].depth = curCompiler(parser).scopeDepth

\* locals of this name exist, all of them in shallower scopes
OnlyShallower(name) ==
    /\ SlotsNamed(name) # {}
    /\ \A i \in SlotsNamed(name) :
           /\ curCompiler(parser).locals[i].depth # -1
           /\ curCompiler(parser).locals[i].depth < curCompiler(parser).scopeDepth

\* the step adds a local of this name on top of the frame's locals
AddsLocal(name) ==
    LET after == parser'.compiler[Len(parser.compiler)].locals
    IN /\ Len(after) = localCount(curCompiler(parser)) + 1
       /\ after[Len(after)].name = name

\* a reference to a name that several locals of the frame have compiles as
\* an access to the newest of them
ResolvesToNewest ==
    LET slots == SlotsNamed(parser.previous.lexeme)
    IN (At("variable", "start") /\ stack' # stack /\ Cardinality(slots) > 1)
         => \E i \in slots :
                /\ \A j \in slots : j <= i
                /\ CompiledAs("OP_LD", "OP_ST", i - 1)

Position(p) == IF p.current.type = "EOF" THEN Len(source) + 2 ELSE p.lexer

\* the calls of declaration that are in progress
DeclarationFrames == {i \in DOMAIN stack : stack[i].fn = "declaration"}

\* the call of declaration at frame i, entered before EOF, has consumed a
\* token by the end of the step
HasConsumed(i) ==
    stack[i].enter.current # "EOF" => Position(parser') > stack[i].enter.lexer

\* a step in which a declaration in progress calls declaration or statement
\* again (not its own first call of statement)
CallsAgain ==
    /\ result = "running"
    /\ DeclarationFrames # {}
    /\ ~At("declaration", "start")
    /\ Len(stack') = Len(stack) + 1
    /\ Top(stack').fn \in {"declaration", "statement"}

\* C15 as claimed: compile terminates for every token sequence; a call of
\* declaration made while current is not EOF consumes at least one token
\* before it calls declaration or statement again and before it returns, so
\* the calls of declaration in progress never outnumber the tokens.
C15_Original ==
    /\ [](result # "overflow")
    /\ [](Cardinality(DeclarationFrames) <= Len(source) + 1)
    /\ [][CallsAgain
            => HasConsumed(CHOOSE i \in DeclarationFrames :
                               \A j \in DeclarationFrames : j <= i)]_vars
    /\ [][At("declaration", "return") /\ stack' # stack
            => HasConsumed(Len(stack))]_vars

====
